---- MODULE Spec2Model ----
(***************************************************************************)
(* State-machine model of praisonaiagents/memory/memory.py (class Memory): *)
(* the two SQLite partitions, the optional Chroma collection and Mem0      *)
(* service, and every public operation of the class.                       *)
(*                                                                         *)
(* Conventions                                                             *)
(*  - a Python str is a sequence of one-character strings;                 *)
(*  - a Python dict is a TLA+ function with a set of strings as domain      *)
(*    (the empty dict is <<>>);                                            *)
(*  - a metadata value is a record [t, n, s]: kind, number, string;        *)
(*  - floats in [0,1] (quality, score, distance) are integers per mille;   *)
(*  - str(time.time_ns()) is the integer clock value it was read from.     *)
(***************************************************************************)
EXTENDS Integers, Sequences, FiniteSets, TLC

VARIABLES
    use_mem0,           \* self.use_mem0
    use_rag,            \* self.use_rag
    has_chroma_client,  \* hasattr(self, "chroma_client")
    has_chroma_col,     \* hasattr(self, "chroma_col")
    short_mem,          \* rows of table short_mem, in rowid order
    long_mem,           \* rows of table long_mem, in rowid order
    chroma,             \* records of the Chroma collection "memory_store"
    mem0,               \* records held by the Mem0 service, in order of arrival
    clock,              \* the value time.time_ns() returns next
    last,               \* the call made last: operation, arguments, outcome
    result,             \* the value that call returned
    inflight            \* calls of concurrent callers that are under way

vars == <<use_mem0, use_rag, has_chroma_client, has_chroma_col,
          short_mem, long_mem, chroma, mem0, clock, last, result, inflight>>

store_vars == <<short_mem, long_mem, chroma, mem0>>
cfg_vars == <<use_mem0, use_rag, has_chroma_client, has_chroma_col>>

-----------------------------------------------------------------------------
(* Bounds *)

MaxClock == 2      \* the clock stops advancing at this value
MaxMem0 == 2       \* the Mem0 service accepts this many records

-----------------------------------------------------------------------------
(* Python str operations *)

ToLowerMap ==
    [A |-> "a", B |-> "b", C |-> "c", D |-> "d", E |-> "e", F |-> "f",
     G |-> "g", H |-> "h", I |-> "i", J |-> "j", K |-> "k", L |-> "l",
     M |-> "m", N |-> "n", O |-> "o", P |-> "p", Q |-> "q", R |-> "r",
     S |-> "s", T |-> "t", U |-> "u", V |-> "v", W |-> "w", X |-> "x",
     Y |-> "y", Z |-> "z"]

\* c.lower()
Lower(c) == IF c \in DOMAIN ToLowerMap THEN ToLowerMap[c] ELSE c

\* c.isspace()
IsSpace(c) == c \in {" ", "\t", "\n", "\r"}

\* the 1-based positions at which sub occurs in s
Occurrences(s, sub) ==
    {i \in 1..(Len(s) - Len(sub) + 1) :
        \A j \in 1..Len(sub) : s[i + j - 1] = sub[j]}

\* sub in s
Contains(s, sub) == Occurrences(s, sub) # {}

\* s.find(sub) + 1: the 1-based position of the first occurrence, 0 if none
Find(s, sub) ==
    LET at == Occurrences(s, sub)
    IN  IF at = {} THEN 0 ELSE CHOOSE i \in at : \A j \in at : i <= j

\* s.split(sep)[0]
SplitFirst(s, sep) ==
    IF Find(s, sep) = 0 THEN s ELSE SubSeq(s, 1, Find(s, sep) - 1)

\* s.strip()
Strip(s) ==
    LET keep == {i \in 1..Len(s) : ~IsSpace(s[i])}
    IN  IF keep = {} THEN <<>>
        ELSE SubSeq(s,
                 CHOOSE i \in keep : \A j \in 1..(i - 1) : IsSpace(s[j]),
                 CHOOSE i \in keep : \A j \in (i + 1)..Len(s) : IsSpace(s[j]))

\* ''.join(c.lower() for c in s if not c.isspace())
LowerNoSpace(s) ==
    LET kept == SelectSeq(s, LAMBDA c : ~IsSpace(c))
    IN  [i \in 1..Len(kept) |-> Lower(kept[i])]

\* ' '.join(s.split()): every character that is no white space, and one
\* blank for each run of white space that stands between two of them
CollapseSpace(s) ==
    LET Dropped == "<dropped>"
        marked == [i \in 1..Len(s) |->
                      IF ~IsSpace(s[i]) THEN s[i]
                      ELSE IF /\ i < Len(s)
                              /\ ~IsSpace(s[i + 1])
                              /\ \E j \in 1..(i - 1) : ~IsSpace(s[j])
                           THEN " "
                           ELSE Dropped]
    IN  SelectSeq(marked, LAMBDA c : c # Dropped)

\* s.rfind(' ', 0, stop) + 1: the 1-based position of the last blank among
\* the first stop characters, 0 if none
RFindBlank(s, stop) ==
    LET end == IF stop <= Len(s) THEN stop ELSE Len(s)
        at == {i \in 1..end : s[i] = " "}
    IN  IF at = {} THEN 0
        ELSE CHOOSE i \in at : \A j \in (i + 1)..end : s[j] # " "

\* "(Memory record:"
Marker == <<"(", "M", "e", "m", "o", "r", "y", " ", "r", "e", "c", "o", "r", "d", ":">>

\* f"{text} (Memory record: {text})"
Cite(text) == text \o <<" ">> \o Marker \o <<" ">> \o text \o <<")">>

\* the citation step of the SQLite branch of search_long_term
CiteOnce(text) == IF ~Contains(text, Marker) THEN Cite(text) ELSE text

-----------------------------------------------------------------------------
(* SQLite: content LIKE '%' || query || '%'  (ASCII case-insensitive, *)
(* '%' matches any run of characters, '_' any one character)          *)

RECURSIVE LikeAt(_, _, _, _)
LikeAt(p, i, s, j) ==
    IF i > Len(p) THEN j > Len(s)
    ELSE IF p[i] = "%"
         THEN \/ i = Len(p)
              \/ \E k \in j..(Len(s) + 1) : LikeAt(p, i + 1, s, k)
    ELSE IF j > Len(s) THEN FALSE
    ELSE IF p[i] = "_" THEN LikeAt(p, i + 1, s, j + 1)
    ELSE Lower(p[i]) = Lower(s[j]) /\ LikeAt(p, i + 1, s, j + 1)

Like(content, query) == LikeAt(<<"%">> \o query \o <<"%">>, 1, content, 1)

\* SELECT ... FROM t WHERE content LIKE ? LIMIT ?
RECURSIVE SelectLike(_, _, _)
SelectLike(rows, query, limit) ==
    IF rows = <<>> \/ limit = 0 THEN <<>>
    ELSE IF Like(Head(rows).content, query)
         THEN <<Head(rows)>> \o SelectLike(Tail(rows), query, limit - 1)
         ELSE SelectLike(Tail(rows), query, limit)

-----------------------------------------------------------------------------
(* Python values *)

\* None passed where a dict is expected
PyNone == [py_none |-> TRUE]

\* None passed where a float is expected
NoNum == -1

Num(n) == [t |-> "num", n |-> n, s |-> ""]
Str(s) == [t |-> "str", n |-> 0, s |-> s]
NoneVal == [t |-> "none", n |-> 0, s |-> ""]
Dict(repr) == [t |-> "dict", n |-> 0, s |-> repr]
Tuple(repr) == [t |-> "tuple", n |-> 0, s |-> repr]
List(repr) == [t |-> "list", n |-> 0, s |-> repr]

\* isinstance(v, (str, int, float, bool))
IsScalar(v) == v.t \in {"num", "str"}

\* d.update(upd)
Update(d, upd) ==
    [k \in DOMAIN d \cup DOMAIN upd |-> IF k \in DOMAIN upd THEN upd[k] ELSE d[k]]

\* json.dumps(metadata): the JSON text, as the member kinds it writes
JsonDumps(metadata) ==
    [k \in DOMAIN metadata |->
        CASE metadata[k].t = "none" -> [metadata[k] EXCEPT !.t = "null"]
          [] metadata[k].t = "num" -> [metadata[k] EXCEPT !.t = "number"]
          [] metadata[k].t = "str" -> [metadata[k] EXCEPT !.t = "string"]
          [] metadata[k].t = "dict" -> [metadata[k] EXCEPT !.t = "object"]
          [] metadata[k].t \in {"tuple", "list"} -> [metadata[k] EXCEPT !.t = "array"]]

\* json.loads(row[2] or "{}")
JsonLoads(meta) ==
    [k \in DOMAIN meta |->
        CASE meta[k].t = "null" -> [meta[k] EXCEPT !.t = "none"]
          [] meta[k].t = "number" -> [meta[k] EXCEPT !.t = "num"]
          [] meta[k].t = "string" -> [meta[k] EXCEPT !.t = "str"]
          [] meta[k].t = "object" -> [meta[k] EXCEPT !.t = "dict"]
          [] meta[k].t = "array" -> [meta[k] EXCEPT !.t = "list"]]

\* Memory._sanitize_metadata
SanitizeMetadata(metadata) ==
    [k \in {j \in DOMAIN metadata : metadata[j].t # "none"} |->
        IF IsScalar(metadata[k]) THEN metadata[k] ELSE Str(metadata[k].s)]

\* meta.get("quality", 0.0)
QualityOf(meta) == IF "quality" \in DOMAIN meta THEN meta["quality"].n ELSE 0

\* r.get("score", 1.0)
ScoreOf(r) == IF "score" \in DOMAIN r THEN r.score ELSE 1000

\* r.get("metadata", {})
MetadataOf(r) == IF "metadata" \in DOMAIN r THEN r.metadata ELSE <<>>

-----------------------------------------------------------------------------
(* Quality score *)

WeightKeys == {"completeness", "relevance", "clarity", "accuracy"}

DefaultWeights ==
    [completeness |-> 250, relevance |-> 250, clarity |-> 250, accuracy |-> 250]

\* round(x, 3) of x = micro / 10^6, in units of 10^-3, ties to the even digit
Round3(micro) ==
    LET q == micro \div 1000
        r == micro % 1000
    IN  IF r > 500 \/ (r = 500 /\ q % 2 = 1) THEN q + 1 ELSE q

\* the quality arguments of the store operations
NoQuality ==
    [completeness |-> NoNum, relevance |-> NoNum, clarity |-> NoNum,
     accuracy |-> NoNum, weights |-> <<>>, evaluator_quality |-> NoNum]

\* Memory.compute_quality_score raises KeyError on a weight that is missing
ScoreRaises(weights) == weights # <<>> /\ ~(WeightKeys \subseteq DOMAIN weights)

\* Memory.compute_quality_score
ComputeQualityScore(completeness, relevance, clarity, accuracy, weights) ==
    LET w == IF weights = <<>> THEN DefaultWeights ELSE weights
    IN  Round3(completeness * w["completeness"] + relevance * w["relevance"]
               + clarity * w["clarity"] + accuracy * w["accuracy"])

AllSubMetrics(qa) ==
    NoNum \notin {qa.completeness, qa.relevance, qa.clarity, qa.accuracy}

\* Memory._process_quality_metrics raises what compute_quality_score raises
QualityRaises(qa) == AllSubMetrics(qa) /\ ScoreRaises(qa.weights)

\* a _process_quality_metrics whose evaluator_quality wins over the
\* sub-metrics
ProcessQualityMetricsEvaluatorFirst(metadata, qa) ==
    LET md == IF metadata = PyNone THEN <<>> ELSE metadata
    IN  IF qa.evaluator_quality # NoNum
        THEN Update(md, [quality |-> Num(qa.evaluator_quality)])
        ELSE IF AllSubMetrics(qa)
        THEN Update(md, [completeness |-> Num(qa.completeness),
                         relevance |-> Num(qa.relevance),
                         clarity |-> Num(qa.clarity),
                         accuracy |-> Num(qa.accuracy),
                         quality |-> Num(ComputeQualityScore(
                             qa.completeness, qa.relevance, qa.clarity,
                             qa.accuracy, qa.weights))])
        ELSE md

\* Memory._process_quality_metrics
ProcessQualityMetrics(metadata, qa) ==
    LET md == IF metadata = PyNone THEN <<>> ELSE metadata
    IN  IF AllSubMetrics(qa)
        THEN Update(md, [completeness |-> Num(qa.completeness),
                         relevance |-> Num(qa.relevance),
                         clarity |-> Num(qa.clarity),
                         accuracy |-> Num(qa.accuracy),
                         quality |-> Num(ComputeQualityScore(
                             qa.completeness, qa.relevance, qa.clarity,
                             qa.accuracy, qa.weights))])
        ELSE IF qa.evaluator_quality # NoNum
        THEN Update(md, [quality |-> Num(qa.evaluator_quality)])
        ELSE md

-----------------------------------------------------------------------------
(* External collaborators: what one call to a provider can answer.        *)
(* A ranking is the provider's answer to one query text: for Chroma every  *)
(* record of the collection, nearest first, with its cosine distance; for  *)
(* Mem0 any selection of its records, best first, with a score.            *)

NoUser == "<none>"

Min(a, b) == IF a <= b THEN a ELSE b

Injective(f) == \A i, j \in DOMAIN f : i # j => f[i] # f[j]

\* the orders in which the members of a finite set can be listed
Orders(S) == {f \in [1..Cardinality(S) -> S] : Injective(f)}

NonDecreasing(f) == \A i, j \in DOMAIN f : i <= j => f[i] <= f[j]

ChromaRankings(distances) ==
    {[i \in 1..Cardinality(chroma) |-> [rec |-> o[i], distance |-> d[i]]] :
        o \in Orders(chroma),
        d \in {e \in [1..Cardinality(chroma) -> distances] : NonDecreasing(e)}}

Mem0Rankings(scores) ==
    UNION {
        {[i \in 1..n |-> [idx |-> o[i], score |-> sc[i]]] :
            o \in {f \in [1..n -> DOMAIN mem0] : Injective(f)},
            sc \in [1..n -> scores]} :
        n \in 0..Len(mem0)}

\* the provider outcomes of one search call: which provider call fails, if
\* any, and the ranking the provider answers otherwise
Mem0Active == use_mem0
RagActive == use_rag /\ has_chroma_col

NoExt == [fail |-> "none", rank |-> <<>>]

ExtOutcomes(distances, scores) ==
    IF Mem0Active
    THEN {[fail |-> "search", rank |-> <<>>]}
         \cup {[fail |-> "none", rank |-> r] : r \in Mem0Rankings(scores)}
    ELSE IF RagActive
    THEN {[fail |-> f, rank |-> <<>>] : f \in {"embed", "query"}}
         \cup {[fail |-> "none", rank |-> r] : r \in ChromaRankings(distances)}
    ELSE {NoExt}

\* chroma_col.query(query_embeddings=[e], n_results=limit)
ChromaQuery(rank, limit) == SubSeq(rank, 1, Min(limit, Len(rank)))

\* the id Mem0 gives its idx-th record (never a time_ns string)
Mem0Id(idx) == 0 - idx

\* mem0_client.search(query=q, limit=limit [, user_id=user_id])
Mem0Search(rank, limit, user_id) ==
    LET mine == SelectSeq(rank, LAMBDA e :
                    user_id = NoUser \/ mem0[e.idx].user_id = user_id)
        top == SubSeq(mine, 1, Min(limit, Len(mine)))
    IN  [i \in 1..Len(top) |->
            [id |-> Mem0Id(top[i].idx), text |-> mem0[top[i].idx].memory,
             metadata |-> mem0[top[i].idx].metadata, score |-> top[i].score]]

-----------------------------------------------------------------------------
(* Search operations, as functions of the state and the provider outcome: *)
(* each gives [raised, res]                                               *)

Returned(res) == [raised |-> FALSE, res |-> res]
Raised == [raised |-> TRUE, res |-> <<>>]

\* the Chroma branch of search_short_term, lines 271-284
ShortFromChroma(resp, min_quality, relevance_cutoff) ==
    LET all == [i \in 1..Len(resp) |->
                    [id |-> resp[i].rec.id, text |-> resp[i].rec.document,
                     metadata |-> resp[i].rec.metadata,
                     score |-> 1000 - resp[i].distance]]
    IN  SelectSeq(all, LAMBDA r : /\ QualityOf(r.metadata) >= min_quality
                                  /\ r.score >= relevance_cutoff)

\* the local fallback of search_short_term, lines 289-309
ShortFromSqlite(query, limit, min_quality) ==
    LET rows == SelectLike(short_mem, query, limit)
        all == [i \in 1..Len(rows) |->
                    [id |-> rows[i].id, text |-> rows[i].content,
                     metadata |-> JsonLoads(rows[i].meta)]]
    IN  SelectSeq(all, LAMBDA r : QualityOf(r.metadata) >= min_quality)

\* Memory.search_short_term
SearchShort(query, limit, min_quality, relevance_cutoff, ext) ==
    IF Mem0Active
    THEN IF ext.fail = "search" THEN Raised
         ELSE Returned(SelectSeq(Mem0Search(ext.rank, limit, NoUser),
                                 LAMBDA r : ScoreOf(r) >= relevance_cutoff))
    ELSE IF RagActive
    THEN IF ext.fail \in {"embed", "query"} THEN Returned(<<>>)
         ELSE Returned(ShortFromChroma(ChromaQuery(ext.rank, limit),
                                       min_quality, relevance_cutoff))
    ELSE Returned(ShortFromSqlite(query, limit, min_quality))

\* the Chroma branch of search_long_term, lines 456-467
LongFromChroma(resp) ==
    [i \in 1..Len(resp) |->
        [id |-> resp[i].rec.id, text |-> Cite(resp[i].rec.document),
         metadata |-> resp[i].rec.metadata,
         score |-> 1000 - resp[i].distance]]

\* the SQLite part without the test for ids already found
RECURSIVE MergeRowsUnchecked(_, _)
MergeRowsUnchecked(found, rows) ==
    IF rows = <<>> THEN found
    ELSE MergeRowsUnchecked(Append(found,
                                   [id |-> Head(rows).id,
                                    text |-> CiteOnce(Head(rows).content),
                                    metadata |-> JsonLoads(Head(rows).meta),
                                    created_at |-> Head(rows).created_at]),
                            Tail(rows))

\* the SQLite part of search_long_term, lines 482-495
RECURSIVE MergeRows(_, _)
MergeRows(found, rows) ==
    IF rows = <<>> THEN found
    ELSE IF \E i \in 1..Len(found) : found[i].id = Head(rows).id
         THEN MergeRows(found, Tail(rows))
         ELSE MergeRows(Append(found,
                               [id |-> Head(rows).id,
                                text |-> CiteOnce(Head(rows).content),
                                metadata |-> JsonLoads(Head(rows).meta),
                                created_at |-> Head(rows).created_at]),
                        Tail(rows))

\* the filters and the truncation of search_long_term, lines 498-514
FilterLong(found, limit, relevance_cutoff, min_quality) ==
    LET byQuality == IF min_quality > 0
                     THEN SelectSeq(found, LAMBDA r :
                              QualityOf(MetadataOf(r)) >= min_quality)
                     ELSE found
        byScore == IF relevance_cutoff > 0
                   THEN SelectSeq(byQuality, LAMBDA r :
                            ScoreOf(r) >= relevance_cutoff)
                   ELSE byQuality
    IN  SubSeq(byScore, 1, Min(limit, Len(byScore)))

\* Memory.search_long_term
SearchLong(query, limit, relevance_cutoff, min_quality, ext) ==
    IF Mem0Active
    THEN IF ext.fail = "search" THEN Raised
         ELSE Returned(SelectSeq(Mem0Search(ext.rank, limit, NoUser),
                                 LAMBDA r : QualityOf(MetadataOf(r)) >= min_quality))
    ELSE LET found == IF RagActive /\ ext.fail = "none"
                      THEN LongFromChroma(ChromaQuery(ext.rank, limit))
                      ELSE <<>>
             rows == SelectLike(long_mem, query, limit)
         IN  Returned(FilterLong(MergeRows(found, rows), limit,
                                 relevance_cutoff, min_quality))

\* the internal limit of search_entity and search_user_memory
GatherLimit == 20

\* search_entity without the category filter
SearchEntityUnfiltered(query, limit, ext) ==
    LET all_hits == SearchLong(query, GatherLimit, 0, 0, ext)
    IN  IF all_hits.raised THEN Raised
        ELSE Returned(SubSeq(all_hits.res, 1, Min(limit, Len(all_hits.res))))

\* Memory.search_entity
SearchEntityOf(query, limit, ext) ==
    LET all_hits == SearchLong(query, GatherLimit, 0, 0, ext)
        ents == SelectSeq(all_hits.res, LAMBDA h :
                    /\ "category" \in DOMAIN MetadataOf(h)
                    /\ MetadataOf(h)["category"] = Str("entity"))
    IN  IF all_hits.raised THEN Raised
        ELSE Returned(SubSeq(ents, 1, Min(limit, Len(ents))))

\* search_user_memory without the user_id filter of the local path
SearchUserUnfiltered(user_id, query, limit, ext) ==
    IF Mem0Active
    THEN IF ext.fail = "search" THEN Raised
         ELSE Returned(Mem0Search(ext.rank, limit, user_id))
    ELSE LET hits == SearchLong(query, GatherLimit, 0, 0, ext)
         IN  Returned(SubSeq(hits.res, 1, Min(limit, Len(hits.res))))

\* Memory.search_user_memory
SearchUserOf(user_id, query, limit, ext) ==
    IF Mem0Active
    THEN IF ext.fail = "search" THEN Raised
         ELSE Returned(Mem0Search(ext.rank, limit, user_id))
    ELSE LET hits == SearchLong(query, GatherLimit, 0, 0, ext)
             filtered == SelectSeq(hits.res, LAMBDA h :
                             /\ "user_id" \in DOMAIN MetadataOf(h)
                             /\ MetadataOf(h)["user_id"] = Str(user_id))
         IN  Returned(SubSeq(filtered, 1, Min(limit, Len(filtered))))

-----------------------------------------------------------------------------
(* Store operations, as functions of the stores st = [short_mem, long_mem, *)
(* chroma, mem0, clock]: each gives the stores it leaves, whether it       *)
(* raised, the id it generated and whether its row was inserted            *)

Cur == [short_mem |-> short_mem, long_mem |-> long_mem, chroma |-> chroma,
        mem0 |-> mem0, clock |-> clock]

Commit(st) ==
    /\ short_mem' = st.short_mem
    /\ long_mem' = st.long_mem
    /\ chroma' = st.chroma
    /\ mem0' = st.mem0
    /\ clock' = st.clock

\* INSERT fails on a primary key that the table already holds
HasId(rows, ident) == \E i \in 1..Len(rows) : rows[i].id = ident

Row(ident, text, metadata) ==
    [id |-> ident, content |-> text, meta |-> JsonDumps(metadata),
     created_at |-> ident]

\* a store_short_term that also adds the record to the collection
StoreShortIndexing(st, text, metadata, qa, dbFail, tick) ==
    IF QualityRaises(qa)
    THEN [st |-> st, raised |-> TRUE, id |-> 0, inserted |-> FALSE]
    ELSE LET md == ProcessQualityMetrics(metadata, qa)
             ident == st.clock
             failed == dbFail \/ HasId(st.short_mem, ident)
         IN  [st |-> [st EXCEPT
                        !.short_mem = IF failed THEN @
                                      ELSE Append(@, Row(ident, text, md)),
                        !.chroma = IF failed \/ ~RagActive THEN @
                                   ELSE @ \cup {[id |-> ident, document |-> text,
                                                 metadata |-> SanitizeMetadata(md)]},
                        !.clock = @ + tick],
              raised |-> failed, id |-> ident, inserted |-> ~failed]

\* Memory.store_short_term; tick is how far the clock moves after time_ns()
StoreShort(st, text, metadata, qa, dbFail, tick) ==
    IF QualityRaises(qa)
    THEN [st |-> st, raised |-> TRUE, id |-> 0, inserted |-> FALSE]
    ELSE LET md == ProcessQualityMetrics(metadata, qa)
             ident == st.clock
             failed == dbFail \/ HasId(st.short_mem, ident)
         IN  [st |-> [st EXCEPT
                        !.short_mem = IF failed THEN @
                                      ELSE Append(@, Row(ident, text, md)),
                        !.clock = @ + tick],
              raised |-> failed, id |-> ident, inserted |-> ~failed]

\* a secondary write that undoes the INSERT when it fails
SecondaryWriteRollingBack(st, ident, text, md, fail) ==
    IF RagActive
    THEN IF fail \in {"embed", "add"} \/ \E r \in st.chroma : r.id = ident
         THEN [st EXCEPT !.long_mem = SubSeq(@, 1, Len(@) - 1)]
         ELSE [st EXCEPT !.chroma = @ \cup {[id |-> ident, document |-> text,
                                             metadata |-> SanitizeMetadata(md)]}]
    ELSE IF Mem0Active
    THEN IF fail = "add" THEN [st EXCEPT !.long_mem = SubSeq(@, 1, Len(@) - 1)]
         ELSE [st EXCEPT !.mem0 = Append(@, [memory |-> text, user_id |-> NoUser,
                                             metadata |-> md])]
    ELSE st

\* the secondary write of store_long_term, lines 378-414
SecondaryWrite(st, ident, text, md, fail) ==
    IF RagActive
    THEN IF fail \in {"embed", "add"} \/ \E r \in st.chroma : r.id = ident
         THEN st
         ELSE [st EXCEPT !.chroma = @ \cup {[id |-> ident, document |-> text,
                                             metadata |-> SanitizeMetadata(md)]}]
    ELSE IF Mem0Active
    THEN IF fail = "add" THEN st
         ELSE [st EXCEPT !.mem0 = Append(@, [memory |-> text, user_id |-> NoUser,
                                             metadata |-> md])]
    ELSE st

\* Memory.store_long_term; fail is the call that fails: "none", "db"
\* (the INSERT), "embed" (embeddings.create) or "add" (chroma_col.add,
\* mem0_client.add)
StoreLong(st, text, metadata, qa, fail, tick) ==
    IF QualityRaises(qa)
    THEN [st |-> st, raised |-> TRUE, id |-> 0, inserted |-> FALSE]
    ELSE LET md == ProcessQualityMetrics(metadata, qa)
             ident == st.clock
             failed == fail = "db" \/ HasId(st.long_mem, ident)
             ticked == [st EXCEPT !.clock = @ + tick]
         IN  IF failed
             THEN [st |-> ticked, raised |-> FALSE, id |-> ident,
                   inserted |-> FALSE]
             ELSE [st |-> SecondaryWrite(
                              [ticked EXCEPT !.long_mem =
                                   Append(@, Row(ident, text, md))],
                              ident, text, md, fail),
                   raised |-> FALSE, id |-> ident, inserted |-> TRUE]

\* the failures a call of store_long_term can meet under the configuration
LongFails ==
    IF RagActive THEN {"none", "db", "embed", "add"}
    ELSE IF Mem0Active THEN {"none", "db", "add"}
    ELSE {"none", "db"}

\* the clock can move by tick, and Mem0 has room for one more record
CanTick(tick) == clock + tick <= MaxClock
Mem0Room == Mem0Active => Len(mem0) < MaxMem0

Outcome(raised) == IF raised THEN "error" ELSE "ok"

-----------------------------------------------------------------------------
(* Operations *)

StoreShortTerm(text, metadata, qa, dbFail, tick) ==
    /\ CanTick(tick)
    /\ LET r == StoreShort(Cur, text, metadata, qa, dbFail, tick)
       IN  /\ Commit(r.st)
           /\ last' = [op |-> "store_short_term", text |-> text,
                       metadata |-> metadata, qa |-> qa,
                       fail |-> IF dbFail THEN "db" ELSE "none",
                       id |-> r.id, inserted |-> r.inserted,
                       outcome |-> Outcome(r.raised)]
    /\ result' = <<>>
    /\ UNCHANGED <<cfg_vars, inflight>>

StoreLongTerm(text, metadata, qa, fail, tick) ==
    /\ CanTick(tick)
    /\ Mem0Room
    /\ fail \in LongFails
    /\ LET r == StoreLong(Cur, text, metadata, qa, fail, tick)
       IN  /\ Commit(r.st)
           /\ last' = [op |-> "store_long_term", text |-> text,
                       metadata |-> metadata, qa |-> qa, fail |-> fail,
                       id |-> r.id, inserted |-> r.inserted,
                       outcome |-> Outcome(r.raised)]
    /\ result' = <<>>
    /\ UNCHANGED <<cfg_vars, inflight>>

\* the ids of the records the provider answered with
HitIds(ext) ==
    IF Mem0Active THEN [i \in 1..Len(ext.rank) |-> Mem0Id(ext.rank[i].idx)]
    ELSE [i \in 1..Len(ext.rank) |-> ext.rank[i].rec.id]

SearchShortTerm(query, limit, min_quality, relevance_cutoff, ext) ==
    /\ LET r == SearchShort(query, limit, min_quality, relevance_cutoff, ext)
       IN  /\ result' = r.res
           /\ last' = [op |-> "search_short_term", query |-> query,
                       limit |-> limit, min_quality |-> min_quality,
                       relevance_cutoff |-> relevance_cutoff,
                       fail |-> ext.fail, hits |-> HitIds(ext),
                       outcome |-> Outcome(r.raised)]
    /\ UNCHANGED <<cfg_vars, inflight, store_vars, clock>>

SearchLongTerm(query, limit, relevance_cutoff, min_quality, ext) ==
    /\ LET r == SearchLong(query, limit, relevance_cutoff, min_quality, ext)
       IN  /\ result' = r.res
           /\ last' = [op |-> "search_long_term", query |-> query,
                       limit |-> limit, min_quality |-> min_quality,
                       relevance_cutoff |-> relevance_cutoff,
                       fail |-> ext.fail, hits |-> HitIds(ext),
                       outcome |-> Outcome(r.raised)]
    /\ UNCHANGED <<cfg_vars, inflight, store_vars, clock>>

\* a reset_short_term that deletes the rows of both tables
ResetShortTermBothTables ==
    /\ short_mem' = <<>>
    /\ long_mem' = <<>>
    /\ last' = [op |-> "reset_short_term", fail |-> "none", outcome |-> "ok"]
    /\ result' = <<>>
    /\ UNCHANGED <<cfg_vars, inflight, chroma, mem0, clock>>

\* Memory.reset_short_term
ResetShortTerm ==
    /\ short_mem' = <<>>
    /\ last' = [op |-> "reset_short_term", fail |-> "none", outcome |-> "ok"]
    /\ result' = <<>>
    /\ UNCHANGED <<cfg_vars, inflight, long_mem, chroma, mem0, clock>>

\* a reset_long_term that deletes only the entity rows of long_mem
ResetLongEntityRows(fail) ==
    /\ long_mem' = SelectSeq(long_mem, LAMBDA r :
                       ~("category" \in DOMAIN r.meta
                         /\ r.meta["category"].s = "entity"))
    /\ mem0' = mem0
    /\ IF use_rag /\ has_chroma_client
       THEN IF fail = "reset"
            THEN UNCHANGED <<chroma, cfg_vars>>
            ELSE /\ chroma' = {}
                 /\ use_rag' = (fail # "init")
                 /\ UNCHANGED <<use_mem0, has_chroma_client, has_chroma_col>>
       ELSE UNCHANGED <<chroma, cfg_vars>>

\* a reset_long_term that resets the collection without calling
\* _init_chroma: the collection handle is gone afterwards
ResetLongWithoutInit(fail) ==
    /\ long_mem' = <<>>
    /\ mem0' = mem0
    /\ IF use_rag /\ has_chroma_client
       THEN IF fail = "reset"
            THEN UNCHANGED <<chroma, cfg_vars>>
            ELSE /\ chroma' = {}
                 /\ has_chroma_col' = FALSE
                 /\ UNCHANGED <<use_mem0, use_rag, has_chroma_client>>
       ELSE UNCHANGED <<chroma, cfg_vars>>

\* Memory.reset_long_term on the long-term stores and the configuration;
\* fail is "none", "reset" (chroma_client.reset raises) or "init" (the
\* client or the collection cannot be created in _init_chroma)
ResetLong(fail) ==
    /\ long_mem' = <<>>
    /\ mem0' = mem0
    /\ IF use_rag /\ has_chroma_client
       THEN IF fail = "reset"
            THEN UNCHANGED <<chroma, cfg_vars>>
            ELSE /\ chroma' = {}
                 /\ use_rag' = (fail # "init")
                 /\ UNCHANGED <<use_mem0, has_chroma_client, has_chroma_col>>
       ELSE UNCHANGED <<chroma, cfg_vars>>

ResetRaises(fail) == use_rag /\ has_chroma_client /\ fail = "reset"

ResetFails == IF use_rag /\ has_chroma_client THEN {"none", "reset", "init"}
              ELSE {"none"}

ResetLongTerm(fail) ==
    /\ fail \in ResetFails
    /\ ResetLong(fail)
    /\ last' = [op |-> "reset_long_term", fail |-> fail,
                before |-> long_mem, indexed |-> chroma,
                outcome |-> Outcome(ResetRaises(fail))]
    /\ result' = <<>>
    /\ UNCHANGED <<short_mem, clock, inflight>>

\* Memory.reset_all
ResetAll(fail) ==
    /\ fail \in ResetFails
    /\ short_mem' = <<>>
    /\ ResetLong(fail)
    /\ last' = [op |-> "reset_all", fail |-> fail,
                outcome |-> Outcome(ResetRaises(fail))]
    /\ result' = <<>>
    /\ UNCHANGED <<clock, inflight>>

-----------------------------------------------------------------------------
(* Entity and user views *)

ENTITY_ == <<"E", "n", "t", "i", "t", "y", " ">>
REL_ == <<" ", "|", " ", "r", "e", "l", "a", "t", "i", "o", "n", "s", "h", "i", "p", "s", ":", " ">>

\* the entity text without its relationships part
EntityTextNoRelations(name, type_, desc, relations) ==
    ENTITY_ \o name \o <<"(">> \o type_ \o <<")", ":", " ">> \o desc

\* f"Entity {name}({type_}): {desc} | relationships: {relations}"
EntityText(name, type_, desc, relations) ==
    ENTITY_ \o name \o <<"(">> \o type_ \o <<")", ":", " ">> \o desc
        \o REL_ \o relations

\* Memory.store_entity
StoreEntity(name, type_, desc, relations, fail, tick) ==
    /\ CanTick(tick)
    /\ Mem0Room
    /\ fail \in LongFails
    /\ LET data == EntityText(name, type_, desc, relations)
           r == StoreLong(Cur, data, [category |-> Str("entity")], NoQuality,
                          fail, tick)
       IN  /\ Commit(r.st)
           /\ last' = [op |-> "store_entity", text |-> data, fail |-> fail,
                       name |-> name, type_ |-> type_, desc |-> desc,
                       relations |-> relations,
                       id |-> r.id, inserted |-> r.inserted,
                       outcome |-> Outcome(r.raised)]
    /\ result' = <<>>
    /\ UNCHANGED <<cfg_vars, inflight>>

SearchEntity(query, limit, ext) ==
    /\ LET r == SearchEntityOf(query, limit, ext)
       IN  /\ result' = r.res
           /\ last' = [op |-> "search_entity", query |-> query,
                       limit |-> limit, fail |-> ext.fail,
                       hits |-> HitIds(ext), outcome |-> Outcome(r.raised)]
    /\ UNCHANGED <<cfg_vars, inflight, store_vars, clock>>

\* Memory.reset_entity_only
ResetEntityOnly(fail) ==
    /\ fail \in ResetFails
    /\ ResetLong(fail)
    /\ last' = [op |-> "reset_entity_only", fail |-> fail, before |-> long_mem,
                outcome |-> Outcome(ResetRaises(fail))]
    /\ result' = <<>>
    /\ UNCHANGED <<short_mem, clock, inflight>>

\* Memory.store_user_memory; extra is a dict or PyNone
StoreUserMemory(user_id, text, extra, fail, tick) ==
    LET meta == IF extra = PyNone \/ extra = <<>>
                THEN [user_id |-> Str(user_id)]
                ELSE Update([user_id |-> Str(user_id)], extra)
    IN  IF Mem0Active
        THEN /\ fail \in {"none", "add"}
             /\ tick = 0
             /\ Len(mem0) < MaxMem0
             /\ mem0' = IF fail = "add" THEN mem0
                        ELSE Append(mem0, [memory |-> text, user_id |-> user_id,
                                           metadata |-> meta])
             /\ last' = [op |-> "store_user_memory", user_id |-> user_id,
                         text |-> text, extra |-> extra, fail |-> fail,
                         id |-> 0, inserted |-> FALSE,
                         outcome |-> Outcome(fail = "add")]
             /\ result' = <<>>
             /\ UNCHANGED <<cfg_vars, inflight, short_mem, long_mem, chroma, clock>>
        ELSE /\ CanTick(tick)
             /\ fail \in LongFails
             /\ LET r == StoreLong(Cur, text, meta, NoQuality, fail, tick)
                IN  /\ Commit(r.st)
                    /\ last' = [op |-> "store_user_memory", user_id |-> user_id,
                                text |-> text, extra |-> extra, fail |-> fail,
                                id |-> r.id, inserted |-> r.inserted,
                                outcome |-> Outcome(r.raised)]
             /\ result' = <<>>
             /\ UNCHANGED <<cfg_vars, inflight>>

SearchUserMemory(user_id, query, limit, ext) ==
    /\ LET r == SearchUserOf(user_id, query, limit, ext)
       IN  /\ result' = r.res
           /\ last' = [op |-> "search_user_memory", user_id |-> user_id,
                       query |-> query, limit |-> limit, fail |-> ext.fail,
                       hits |-> HitIds(ext), outcome |-> Outcome(r.raised)]
    /\ UNCHANGED <<cfg_vars, inflight, store_vars, clock>>

\* Memory.reset_user_memory
ResetUserMemory(fail) ==
    /\ fail \in ResetFails
    /\ ResetLong(fail)
    /\ last' = [op |-> "reset_user_memory", fail |-> fail, before |-> long_mem,
                outcome |-> Outcome(ResetRaises(fail))]
    /\ result' = <<>>
    /\ UNCHANGED <<short_mem, clock, inflight>>

-----------------------------------------------------------------------------
(* Task finalization *)

\* the comparison with > for >=
PromotedStrictly(quality_score, threshold) == quality_score > threshold

\* the threshold comparison of finalize_task_output, line 637
Promoted(quality_score, threshold) == quality_score >= threshold

\* a finalize_task_output whose short-term failure skips the long-term store
LongAttemptedUnlessShortFailed(short_raised, promoted) == promoted /\ ~short_raised

\* the long-term store of finalize_task_output is attempted when the score
\* is promoted, whether the short-term store raised or not (the except
\* clause of lines 633-634 only logs)
LongAttempted(short_raised, promoted) == promoted

\* Memory.finalize_task_output; task_id and metrics are metadata values
\* (NoneVal when not given), tickS and tickL move the clock after the two
\* time_ns() calls, and failL is "none" when nothing is promoted
FinalizeTaskOutput(content, agent_name, quality_score, threshold, metrics, task_id, failS, failL, tickS, tickL) ==
    LET metadata == [task_id |-> task_id, agent |-> Str(agent_name),
                     quality |-> Num(quality_score), metrics |-> metrics,
                     task_type |-> Str("output"), stored_at |-> Num(clock)]
        s == StoreShort(Cur, content, metadata, NoQuality, failS, tickS)
        promoted == LongAttempted(s.raised, Promoted(quality_score, threshold))
        l == StoreLong(s.st, content, metadata, NoQuality, failL, tickL)
    IN  /\ CanTick(tickS + tickL)
        /\ Mem0Room
        /\ IF promoted THEN failL \in LongFails ELSE failL = "none" /\ tickL = 0
        /\ Commit(IF promoted THEN l.st ELSE s.st)
        /\ last' = [op |-> "finalize_task_output", text |-> content,
                    quality_score |-> quality_score, threshold |-> threshold,
                    fail |-> IF failS THEN "db" ELSE "none", failL |-> failL,
                    id |-> s.id, inserted |-> s.inserted,
                    tickS |-> tickS,
                    long_id |-> IF promoted THEN l.id ELSE 0,
                    long_inserted |-> promoted /\ l.inserted,
                    outcome |-> "ok"]
        /\ result' = <<>>
        /\ UNCHANGED <<cfg_vars, inflight>>

-----------------------------------------------------------------------------
(* Context assembly *)

\* the default max_len of format_content
FormatMaxLen == 150

\* normalize_content of build_context_for_task
NormalizeContent(content) == LowerNoSpace(Strip(SplitFirst(content, Marker)))

\* format_content of build_context_for_task
FormatContent(content, max_len) ==
    LET clean == CollapseSpace(content)
        blank == RFindBlank(clean, max_len - 3)
        truncate_at == IF blank = 0 THEN max_len - 3 ELSE blank - 1
    IN  IF content = <<>> THEN <<>>
        ELSE IF Contains(clean, Marker) THEN clean
        ELSE IF Len(clean) <= max_len THEN clean
        ELSE SubSeq(clean, 1, truncate_at) \o <<".", ".", ".">>

\* h.get('text', '')
TextOf(h) == IF "text" \in DOMAIN h THEN h.text ELSE <<>>

\* the formatting step of add_section, lines 708-712
Formatted(content) ==
    IF Contains(content, Marker) THEN content
    ELSE FormatContent(content, FormatMaxLen)

\* the loop of add_section over hits: [hits, seen], the formatted hits of
\* the section and the contents seen so far
RECURSIVE SectionHits(_, _, _)
SectionHits(hits, acc, seen) ==
    IF hits = <<>> THEN [hits |-> acc, seen |-> seen]
    ELSE LET content == TextOf(Head(hits))
             normalized == NormalizeContent(Formatted(content))
         IN  IF content = <<>> \/ normalized \in seen
             THEN SectionHits(Tail(hits), acc, seen)
             ELSE SectionHits(Tail(hits), Append(acc, Formatted(content)),
                              seen \cup {normalized})

TitleShort == <<"S", "h", "o", "r", "t", "-", "t", "e", "r", "m", " ", "M", "e", "m", "o", "r", "y", " ", "C", "o", "n", "t", "e", "x", "t">>
TitleLong == <<"L", "o", "n", "g", "-", "t", "e", "r", "m", " ", "M", "e", "m", "o", "r", "y", " ", "C", "o", "n", "t", "e", "x", "t">>
TitleEntity == <<"E", "n", "t", "i", "t", "y", " ", "C", "o", "n", "t", "e", "x", "t">>
TitleUser == <<"U", "s", "e", "r", " ", "C", "o", "n", "t", "e", "x", "t">>

\* the character U+2022 of the bullet prefix " \u2022 "
Bullet == "U+2022"

\* "=" * len(title)
Underline(title) == [i \in 1..Len(title) |-> "="]

\* the lines add_section appends for a section with formatted hits
SectionLines(lines, title, formatted_hits) ==
    IF formatted_hits = <<>> THEN lines
    ELSE (IF lines # <<>> THEN Append(lines, <<>>) ELSE lines)
         \o <<title, Underline(title), <<>>>>
         \o [i \in 1..Len(formatted_hits) |->
                <<" ", Bullet, " ">> \o formatted_hits[i]]

\* "\n".join(lines)
RECURSIVE JoinLines(_)
JoinLines(lines) ==
    IF lines = <<>> THEN <<>>
    ELSE IF Len(lines) = 1 THEN lines[1]
    ELSE lines[1] \o <<"\n">> \o JoinLines(Tail(lines))

\* the four add_section calls of build_context_for_task, in priority order:
\* the formatted hits of each section
Sections(short_term, long_term, entities, user_mem) ==
    LET s1 == SectionHits(short_term, <<>>, {})
        s2 == SectionHits(long_term, <<>>, s1.seen)
        s3 == SectionHits(entities, <<>>, s2.seen)
        s4 == SectionHits(user_mem, <<>>, s3.seen)
    IN  <<s1.hits, s2.hits, s3.hits, s4.hits>>

ContextLines(sections) ==
    SectionLines(SectionLines(SectionLines(SectionLines(<<>>,
        TitleShort, sections[1]), TitleLong, sections[2]),
        TitleEntity, sections[3]), TitleUser, sections[4])

\* a build_context_for_task that records the query it searched for as a
\* short-term row
BuildContextRecordingQuery(task_descr, user_id, additional, max_items, exts) ==
    LET q == Strip(task_descr \o <<" ">> \o additional)
        short_term == SearchShort(q, max_items, 0, 0, exts[1])
        long_term == SearchLong(q, max_items, 0, 0, exts[2])
        entities == SearchEntityOf(q, max_items, exts[3])
        user_mem == IF user_id # NoUser
                    THEN SearchUserOf(user_id, q, max_items, exts[4])
                    ELSE Returned(<<>>)
        raised == \/ short_term.raised \/ long_term.raised
                  \/ entities.raised \/ user_mem.raised
        sections == Sections(short_term.res, long_term.res, entities.res,
                             user_mem.res)
    IN  /\ last' = [op |-> "build_context_for_task", query |-> q,
                    user_id |-> user_id, limit |-> max_items,
                    fail |-> exts[1].fail,
                    hits |-> IF raised THEN <<>>
                             ELSE <<short_term.res, long_term.res,
                                    entities.res, user_mem.res>>,
                    sections |-> IF raised THEN <<>> ELSE sections,
                    outcome |-> Outcome(raised)]
        /\ result' = IF raised THEN <<>> ELSE JoinLines(ContextLines(sections))
        /\ short_mem' = Append(short_mem, Row(clock, q, <<>>))
        /\ UNCHANGED <<cfg_vars, inflight, long_mem, chroma, mem0, clock>>

\* Memory.build_context_for_task; user_id is NoUser when not given, exts are
\* the provider outcomes of the four searches
BuildContext(task_descr, user_id, additional, max_items, exts) ==
    LET q == Strip(task_descr \o <<" ">> \o additional)
        short_term == SearchShort(q, max_items, 0, 0, exts[1])
        long_term == SearchLong(q, max_items, 0, 0, exts[2])
        entities == SearchEntityOf(q, max_items, exts[3])
        user_mem == IF user_id # NoUser
                    THEN SearchUserOf(user_id, q, max_items, exts[4])
                    ELSE Returned(<<>>)
        raised == \/ short_term.raised \/ long_term.raised
                  \/ entities.raised \/ user_mem.raised
        sections == Sections(short_term.res, long_term.res, entities.res,
                             user_mem.res)
    IN  /\ last' = [op |-> "build_context_for_task", query |-> q,
                    user_id |-> user_id, limit |-> max_items,
                    fail |-> exts[1].fail,
                    hits |-> IF raised THEN <<>>
                             ELSE <<short_term.res, long_term.res,
                                    entities.res, user_mem.res>>,
                    sections |-> IF raised THEN <<>> ELSE sections,
                    outcome |-> Outcome(raised)]
        /\ result' = IF raised THEN <<>> ELSE JoinLines(ContextLines(sections))
        /\ UNCHANGED <<cfg_vars, inflight, store_vars, clock>>

-----------------------------------------------------------------------------
(* Construction: Memory.__init__ on fresh database files.  A failing *)
(* _init_chroma leaves use_rag False, which is the "none" state.     *)

Backends == {"mem0", "rag", "none"}

Init ==
    /\ \E b \in Backends :
          /\ use_mem0 = (b = "mem0")
          /\ use_rag = (b = "rag")
          /\ has_chroma_client = (b = "rag")
          /\ has_chroma_col = (b = "rag")
    /\ short_mem = <<>>
    /\ long_mem = <<>>
    /\ chroma = {}
    /\ mem0 = <<>>
    /\ clock = 1
    /\ last = [op |-> "__init__", fail |-> "none", outcome |-> "ok"]
    /\ result = <<>>
    /\ inflight = <<>>

-----------------------------------------------------------------------------
(* Inputs *)

Ticks == {0, 1}

TextHi == <<"h", "i">>
TextCited == Cite(TextHi)
QueryHi == <<"h", "i">>
QueryRec == <<"r", "e", "c">>

MetaTask ==
    [quality |-> Num(800), agent |-> Str("a1"), task_id |-> NoneVal,
     metrics |-> Dict("{'acc': 1}"), tags |-> Tuple("('x',)")]

Distances == {200}
Scores == {900}

Exts == ExtOutcomes(Distances, Scores)

-----------------------------------------------------------------------------
(* The store operations *)

StoreMetas == {PyNone, MetaTask}

NextStore ==
    \/ \E f \in BOOLEAN, k \in Ticks :
          StoreShortTerm(TextHi, PyNone, NoQuality, f, k)
    \/ \E m \in StoreMetas, f \in LongFails, k \in Ticks :
          StoreLongTerm(TextHi, m, NoQuality, f, k)
    \/ ResetShortTerm
    \/ \E f \in ResetFails : ResetLongTerm(f)

SpecStore == Init /\ [][NextStore]_vars

\* C3: a store_short_term or store_long_term call whose INSERT fails ends
\* with an error for the caller, and writes nothing to Chroma or Mem0.
C3_InsertFailureRaises ==
    [][(/\ last'.op \in {"store_short_term", "store_long_term"}
        /\ ~last'.inserted)
       => /\ last'.outcome = "error"
          /\ chroma' = chroma
          /\ mem0' = mem0]_vars

\* C4: a store_long_term call whose INSERT succeeds and whose secondary
\* write fails (embeddings.create, chroma_col.add or mem0_client.add) returns
\* normally and leaves long_mem with the new row appended.
C4_SecondaryFailureKeepsRow ==
    [][(/\ last'.op = "store_long_term"
        /\ last'.fail \in {"embed", "add"}
        /\ ~HasId(long_mem, last'.id))
       => /\ last'.outcome = "ok"
          /\ long_mem' = Append(long_mem,
                 Row(last'.id, last'.text,
                     ProcessQualityMetrics(last'.metadata, last'.qa)))
          /\ short_mem' = short_mem]_vars

\* the row of the last store_long_term call is in long_mem although its
\* secondary write failed and left no copy in Chroma
C4_Witness ==
    /\ last.op = "store_long_term"
    /\ last.fail \in {"embed", "add"}
    /\ last.outcome = "ok"
    /\ RagActive \/ Mem0Active
    /\ HasId(long_mem, last.id)
    /\ long_mem[Len(long_mem)].content = last.text
    /\ ~\E r \in chroma : r.id = last.id

-----------------------------------------------------------------------------
(* Long-term store and search *)

LongTexts == {TextHi, TextCited}
LongMetas == {PyNone, MetaTask}
LongQueries == {QueryHi, QueryRec}
LongLimits == {1, 5}

NextLong ==
    \/ \E f \in BOOLEAN, k \in Ticks :
          StoreShortTerm(TextHi, PyNone, NoQuality, f, k)
    \/ \E t \in LongTexts, m \in LongMetas, f \in LongFails, k \in Ticks :
          StoreLongTerm(t, m, NoQuality, f, k)
    \/ \E q \in LongQueries, n \in LongLimits, e \in Exts :
          SearchLongTerm(q, n, 0, 0, e)

SpecLong == Init /\ [][NextLong]_vars

\* a result r of a search is a record for the stored text
IsRecordFor(r, text) == TextOf(r) \in {text, Cite(text)}

\* meta has every scalar field of the dict md, with its value
KeepsScalars(md, meta) ==
    \A k \in DOMAIN md : IsScalar(md[k]) => k \in DOMAIN meta /\ meta[k] = md[k]

\* C2: a search_long_term call that follows a store_long_term(T, M) call
\* which returned, with limit >= 1 and a query that is a substring of T,
\* returns a record for T whose metadata has every scalar field of M.
C2_RoundTrip ==
    [][(/\ last.op = "store_long_term"
        /\ last.outcome = "ok"
        /\ last'.op = "search_long_term"
        /\ last'.limit >= 1
        /\ Contains(last.text, last'.query))
       => /\ last'.outcome = "ok"
          /\ \E i \in 1..Len(result') :
                /\ IsRecordFor(result'[i], last.text)
                /\ KeepsScalars(ProcessQualityMetrics(last.metadata, last.qa),
                                MetadataOf(result'[i]))]_vars

\* C5: whichever backend is active, the result of a search_long_term call
\* that is not cut by limit has a record for every row of long_mem that matches
\* the query and whose id is not among the ids the backend answered with.
C5_LocalRowsMerged ==
    (/\ last.op = "search_long_term"
     /\ last.outcome = "ok"
     /\ last.limit >= Len(last.hits) + Len(long_mem))
    => \A i \in 1..Len(long_mem) :
          (/\ Like(long_mem[i].content, last.query)
           /\ ~\E h \in 1..Len(last.hits) : last.hits[h] = long_mem[i].id)
          => \E j \in 1..Len(result) : result[j].id = long_mem[i].id

\* the text a record of a search_long_term result was retrieved from: the
\* Chroma document for a scored record, the long_mem content otherwise
SourceText(r) ==
    IF "score" \in DOMAIN r
    THEN (CHOOSE c \in chroma : c.id = r.id).document
    ELSE long_mem[CHOOSE i \in 1..Len(long_mem) : long_mem[i].id = r.id].content

\* C9: on the Chroma path and on the SQLite path, each record of a
\* search_long_term result carries its source text unchanged when that text
\* already holds "(Memory record:", and with one citation suffix otherwise.
C9_CitationOnce ==
    (/\ last.op = "search_long_term"
     /\ last.outcome = "ok"
     /\ ~Mem0Active)
    => \A i \in 1..Len(result) :
          result[i].text = IF Contains(SourceText(result[i]), Marker)
                           THEN SourceText(result[i])
                           ELSE Cite(SourceText(result[i]))

-----------------------------------------------------------------------------
(* Task finalization *)

FinalScores == {500, 700, 800}
FinalThresholds == {700}

NextFinalize ==
    \/ \E sc \in FinalScores, th \in FinalThresholds, fs \in BOOLEAN,
          fl \in {"none", "db"}, ks \in Ticks, kl \in Ticks :
          FinalizeTaskOutput(TextHi, "a1", sc, th, NoneVal, NoneVal,
                             fs, fl, ks, kl)
    \/ \E f \in ResetFails : ResetAll(f)

SpecFinalize == Init /\ [][NextFinalize]_vars

\* rows' is rows with one more row at the end, whose content is text
Appended(rows, rowsAfter, text) ==
    /\ Len(rowsAfter) = Len(rows) + 1
    /\ SubSeq(rowsAfter, 1, Len(rows)) = rows
    /\ rowsAfter[Len(rowsAfter)].content = text

\* C1: when both INSERTs of a finalize_task_output call succeed (no database
\* failure, no primary key already in the table), the call adds one row with
\* the content to short_mem, and adds one row with the content to long_mem if
\* quality_score >= threshold and leaves long_mem unchanged otherwise.
C1_FinalizePromotes ==
    [][(/\ last'.op = "finalize_task_output"
        /\ last'.fail = "none"
        /\ last'.failL # "db"
        /\ ~HasId(short_mem, last'.id)
        /\ ~HasId(long_mem, last'.long_id))
       => /\ Appended(short_mem, short_mem', last'.text)
          /\ IF last'.quality_score >= last'.threshold
             THEN Appended(long_mem, long_mem', last'.text)
             ELSE long_mem' = long_mem]_vars

\* a call with quality_score equal to the threshold has written both rows
C1_Witness ==
    /\ last.op = "finalize_task_output"
    /\ last.quality_score = last.threshold
    /\ last.inserted
    /\ last.long_inserted
    /\ short_mem # <<>>
    /\ long_mem[Len(long_mem)].content = last.text

-----------------------------------------------------------------------------
(* Reset and search *)

QueryH == <<"h">>

NextReset ==
    \/ \E f \in BOOLEAN, k \in Ticks :
          StoreShortTerm(TextHi, PyNone, NoQuality, f, k)
    \/ \E f \in LongFails, k \in Ticks :
          StoreLongTerm(TextHi, PyNone, NoQuality, f, k)
    \/ \E f \in LongFails, k \in Ticks :
          StoreUserMemory("u1", TextHi, PyNone, f, k)
    \/ \E e \in Exts : SearchShortTerm(QueryH, 5, 0, 0, e)
    \/ \E e \in Exts : SearchLongTerm(QueryH, 5, 0, 0, e)
    \/ \E e \in Exts : SearchUserMemory("u1", QueryH, 5, e)
    \/ ResetShortTerm
    \/ \E f \in ResetFails : ResetLongTerm(f)
    \/ \E f \in ResetFails : ResetAll(f)

SpecReset == Init /\ [][NextReset]_vars

\* C6: under every backend, a search_short_term or search_long_term call
\* that directly follows a reset_all call which returned gives the empty list.
C6_EmptyAfterResetAll ==
    [][(/\ last.op = "reset_all"
        /\ last.outcome = "ok"
        /\ last'.op \in {"search_short_term", "search_long_term"}
        /\ last'.outcome = "ok")
       => result' = <<>>]_vars

\* C10: a search_short_term, search_long_term or search_user_memory call
\* in which a provider call fails (mem0_client.search, embeddings.create,
\* chroma_col.query) returns normally.
C10_ProviderFailureSwallowed ==
    (/\ last.op \in {"search_short_term", "search_long_term",
                     "search_user_memory"}
     /\ last.fail # "none")
    => last.outcome = "ok"

-----------------------------------------------------------------------------
(* Entity view *)

MetaNote == [category |-> Str("note")]

EntityLimits == {1, 5}

NextEntity ==
    \/ \E m \in {PyNone, MetaNote}, k \in Ticks :
          StoreLongTerm(TextHi, m, NoQuality, "none", k)
    \/ \E f \in LongFails, k \in Ticks :
          StoreEntity(<<"h">>, <<"t">>, <<"d">>, <<"r">>, f, k)
    \/ \E n \in EntityLimits, e \in Exts : SearchEntity(QueryH, n, e)

SpecEntity == Init /\ [][NextEntity]_vars

\* C8: every record a search_entity call returns has metadata
\* category = "entity", and the call returns at most limit records.
C8_EntityIsolation ==
    (last.op = "search_entity" /\ last.outcome = "ok")
    => /\ Len(result) <= last.limit
       /\ \A i \in 1..Len(result) :
             /\ "category" \in DOMAIN MetadataOf(result[i])
             /\ MetadataOf(result[i])["category"] = Str("entity")

\* the rows of long_mem that match the query and are entity rows, or not
EntityRows(query, entity) ==
    {i \in 1..Len(long_mem) :
        /\ Like(long_mem[i].content, query)
        /\ entity <=> /\ "category" \in DOMAIN long_mem[i].meta
                      /\ long_mem[i].meta["category"].s = "entity"}

\* a search_entity call returned limit records, entity records all, while
\* long_mem held a row that matches the query and is no entity
C8_Witness ==
    /\ last.op = "search_entity"
    /\ last.outcome = "ok"
    /\ Len(result) = last.limit
    /\ EntityRows(last.query, TRUE) # {}
    /\ EntityRows(last.query, FALSE) # {}

-----------------------------------------------------------------------------
(* Context assembly *)

\* word * n
Repeat(word, n) == [i \in 1..(n * Len(word)) |-> word[((i - 1) % Len(word)) + 1]]

\* 153 characters: longer than the 150 that format_content keeps
TextLong == Repeat(<<"h", "i", " ">>, 51)

NextContext ==
    \/ \E k \in Ticks : StoreShortTerm(TextLong, PyNone, NoQuality, FALSE, k)
    \/ \E k \in Ticks : StoreLongTerm(TextLong, PyNone, NoQuality, "none", k)
    \/ \E k \in Ticks :
          StoreEntity(<<"h">>, <<"t">>, <<"d">>, <<"r">>, "none", k)
    \/ \E k \in Ticks : StoreUserMemory("u1", TextHi, PyNone, "none", k)
    \/ \E u \in {NoUser, "u1"}, e \in Exts :
          BuildContext(QueryHi, u, <<>>, 3, <<e, e, e, e>>)

SpecContext == Init /\ [][NextContext]_vars

\* the hits of section s of the last build_context_for_task call whose
\* text is the content k after normalization
HitsOf(s, k) ==
    {i \in 1..Len(last.hits[s]) : NormalizeContent(TextOf(last.hits[s][i])) = k}

\* the bullets of section s that show a hit of content k
BulletsOf(s, k) ==
    {n \in 1..Len(last.sections[s]) :
        \E i \in HitsOf(s, k) :
            last.sections[s][n] = Formatted(TextOf(last.hits[s][i]))}

\* C7: when two sections of a build_context_for_task call hold hits whose
\* texts are equal after normalization, the output has one bullet for that
\* content in the first of the sections that hold it and none in the others.
C7_DedupAcrossSections ==
    (last.op = "build_context_for_task" /\ last.outcome = "ok")
    => \A s1, s2 \in 1..4 : \A i \in 1..Len(last.hits[s1]) :
          LET k == NormalizeContent(TextOf(last.hits[s1][i]))
          IN  (s1 < s2 /\ HitsOf(s2, k) # {} /\ \A s \in 1..(s1 - 1) : HitsOf(s, k) = {})
              => /\ Cardinality(BulletsOf(s1, k)) = 1
                 /\ \A s \in (s1 + 1)..4 : BulletsOf(s, k) = {}

-----------------------------------------------------------------------------
(* Failures of the auxiliary backends in store and reset operations *)

\* C11: in the store and reset operations a failure of an auxiliary backend
\* (embedding call, collection add, Mem0 add, collection reset or re-creation)
\* never reaches the caller: the operation returns normally.
C11_AuxiliaryFailureSwallowed ==
    (/\ last.op \in {"store_long_term", "store_user_memory",
                     "reset_long_term", "reset_all"}
     /\ last.fail \in {"embed", "add", "reset", "init"})
    => last.outcome = "ok"

-----------------------------------------------------------------------------
(* Provenance of entity and user records *)

MetaEntity == [category |-> Str("entity")]
MetaUser == [user_id |-> Str("u2")]

ProvMetas == {PyNone, MetaEntity, MetaUser}
ProvExtras == {PyNone, MetaEntity}

NextProvenance ==
    \/ \E m \in ProvMetas, f \in LongFails, k \in Ticks :
          StoreLongTerm(TextHi, m, NoQuality, f, k)
    \/ \E f \in LongFails, k \in Ticks :
          StoreEntity(<<"h">>, <<"t">>, <<"d">>, <<"r">>, f, k)
    \/ \E x \in ProvExtras, f \in LongFails \cup {"add"}, k \in Ticks :
          StoreUserMemory("u1", TextHi, x, f, k)
    \/ \E f \in ResetFails : ResetLongTerm(f)

SpecProvenance == Init /\ [][NextProvenance]_vars

\* the row a step appends to long_mem, as a set: empty when it appends none
NewRows == IF Len(long_mem') = Len(long_mem) + 1
           THEN {long_mem'[Len(long_mem')]} ELSE {}

HasKey(d, key) == d # PyNone /\ key \in DOMAIN d

IsEntityRow(r) == HasKey(r.meta, "category") /\ r.meta["category"].s = "entity"

\* "Entity {name}({type}): {description} | relationships: {relations}"
Canonical(r, name, type_, desc, relations) ==
    r.content = <<"E", "n", "t", "i", "t", "y", " ">> \o name \o <<"(">>
                \o type_ \o <<")", ":", " ">> \o desc
                \o <<" ", "|", " ", "r", "e", "l", "a", "t", "i", "o", "n",
                     "s", "h", "i", "p", "s", ":", " ">> \o relations

\* C12: every row added to long_mem whose metadata has category = "entity"
\* was written by store_entity and has the canonical content, and every row
\* added whose metadata has a user_id key was written by store_user_memory.
C12_Provenance ==
    [][\A r \in NewRows :
          /\ IsEntityRow(r)
             => /\ last'.op = "store_entity"
                /\ Canonical(r, last'.name, last'.type_, last'.desc,
                             last'.relations)
          /\ HasKey(r.meta, "user_id") => last'.op = "store_user_memory"]_vars

\* C12 as amended: such a row was written by store_entity (canonical
\* content), respectively store_user_memory, or by a call whose caller
\* passed the key in the metadata of store_long_term or in the extra of
\* store_user_memory.
C12_ProvenanceOrCallerMetadata ==
    [][\A r \in NewRows :
          /\ IsEntityRow(r)
             => \/ /\ last'.op = "store_entity"
                   /\ Canonical(r, last'.name, last'.type_, last'.desc,
                                last'.relations)
                \/ /\ last'.op = "store_long_term"
                   /\ HasKey(last'.metadata, "category")
                \/ /\ last'.op = "store_user_memory"
                   /\ HasKey(last'.extra, "category")
          /\ HasKey(r.meta, "user_id")
             => \/ last'.op = "store_user_memory"
                \/ /\ last'.op = "store_long_term"
                   /\ HasKey(last'.metadata, "user_id")]_vars

\* long_mem holds an entity row written by store_entity and a user row
\* written by store_user_memory
C12_Witness ==
    /\ \E i \in 1..Len(long_mem) :
          /\ IsEntityRow(long_mem[i])
          /\ Canonical(long_mem[i], <<"h">>, <<"t">>, <<"d">>, <<"r">>)
    /\ \E i \in 1..Len(long_mem) :
          /\ HasKey(long_mem[i].meta, "user_id")
          /\ long_mem[i].meta["user_id"].s = "u1"
          /\ long_mem[i].content = TextHi

-----------------------------------------------------------------------------
(* Short-term round trip *)

\* C13: when short_mem holds exactly one row, stored by store_short_term on
\* the empty table, a search_short_term whose query is a substring of the
\* row's content, with limit >= 1, the default min_quality and no provider
\* failure, returns exactly one record, whose text is the row's content.
C13_ShortRoundTrip ==
    (/\ last.op = "search_short_term"
     /\ last.fail = "none"
     /\ last.limit >= 1
     /\ last.min_quality = 0
     /\ Len(short_mem) = 1
     /\ Contains(short_mem[1].content, last.query))
    => /\ Len(result) = 1
       /\ result[1].text = short_mem[1].content

-----------------------------------------------------------------------------
(* Short-term failure in task finalization *)

\* C14: when the short-term store of a finalize_task_output call fails (the
\* INSERT raises or the id is already in short_mem), the call still returns
\* normally, and with quality_score >= threshold and a long-term INSERT that
\* can succeed it appends the content to long_mem.
C14_ShortFailureKeepsLong ==
    [][(/\ last'.op = "finalize_task_output"
        /\ (last'.fail = "db" \/ HasId(short_mem, last'.id)))
       => /\ last'.outcome = "ok"
          /\ short_mem' = short_mem
          /\ (/\ last'.quality_score >= last'.threshold
              /\ last'.failL # "db"
              /\ ~HasId(long_mem, clock + last'.tickS))
             => Appended(long_mem, long_mem', last'.text)]_vars

\* a call whose short-term store failed has written the long-term row
C14_Witness ==
    /\ last.op = "finalize_task_output"
    /\ last.fail = "db"
    /\ ~last.inserted
    /\ last.quality_score >= last.threshold
    /\ last.long_inserted
    /\ short_mem = <<>>
    /\ long_mem # <<>>

-----------------------------------------------------------------------------
(* Quality metadata *)

\* a call of Memory._process_quality_metrics: result is the metadata it
\* returns
CallProcessQualityMetrics(metadata, qa) ==
    /\ result' = IF QualityRaises(qa) THEN <<>>
                 ELSE ProcessQualityMetrics(metadata, qa)
    /\ last' = [op |-> "_process_quality_metrics", metadata |-> metadata,
                qa |-> qa, fail |-> "none",
                outcome |-> Outcome(QualityRaises(qa))]
    /\ UNCHANGED <<cfg_vars, inflight, store_vars, clock>>

SubMetrics == {NoNum, 0, 1000}
EvaluatorQualities == {NoNum, 900}
MetaQuality == [quality |-> Num(100), clarity |-> Num(300), agent |-> Str("a1")]
QualityMetas == {PyNone, MetaQuality}
WeightsCustom ==
    [completeness |-> 400, relevance |-> 300, clarity |-> 200, accuracy |-> 100]
WeightsPartial == [completeness |-> 1000]
QualityWeights == {<<>>, WeightsCustom, WeightsPartial}

QualityInputs ==
    [completeness : SubMetrics, relevance : SubMetrics, clarity : SubMetrics,
     accuracy : SubMetrics, weights : QualityWeights,
     evaluator_quality : EvaluatorQualities]

NextQuality ==
    \E md \in QualityMetas, qa \in QualityInputs :
        CallProcessQualityMetrics(md, qa)

SpecQuality == Init /\ [][NextQuality]_vars

\* metadata or {}
OrEmpty(metadata) == IF metadata = PyNone THEN <<>> ELSE metadata

\* the keys of d other than keys hold in r what they hold in d
KeepsOthers(d, r, keys) ==
    /\ DOMAIN r = DOMAIN d \cup keys
    /\ \A k \in DOMAIN d \ keys : r[k] = d[k]

\* C15: a _process_quality_metrics call that returns takes one of three
\* paths: with all four sub-metrics given, quality is their computed score
\* and the four sub-metrics are in the metadata, whatever evaluator_quality
\* is; otherwise, with evaluator_quality given, quality is evaluator_quality
\* and no other key is added or changed; otherwise the metadata comes back
\* unchanged (the empty metadata for None).
C15_QualityPaths ==
    (last.op = "_process_quality_metrics" /\ last.outcome = "ok")
    => LET md == OrEmpty(last.metadata)
           qa == last.qa
           four == /\ qa.completeness # NoNum
                   /\ qa.relevance # NoNum
                   /\ qa.clarity # NoNum
                   /\ qa.accuracy # NoNum
       IN  IF four
           THEN /\ KeepsOthers(md, result, WeightKeys \cup {"quality"})
                /\ result["quality"] =
                     Num(ComputeQualityScore(qa.completeness, qa.relevance,
                                             qa.clarity, qa.accuracy, qa.weights))
                /\ result["completeness"] = Num(qa.completeness)
                /\ result["relevance"] = Num(qa.relevance)
                /\ result["clarity"] = Num(qa.clarity)
                /\ result["accuracy"] = Num(qa.accuracy)
           ELSE IF qa.evaluator_quality # NoNum
           THEN /\ KeepsOthers(md, result, {"quality"})
                /\ result["quality"] = Num(qa.evaluator_quality)
           ELSE result = md

\* a call with all four sub-metrics and an evaluator_quality that differs
\* from their score has returned the computed score
C15_Witness ==
    /\ last.op = "_process_quality_metrics"
    /\ last.outcome = "ok"
    /\ AllSubMetrics(last.qa)
    /\ last.qa.evaluator_quality = 900
    /\ last.qa.weights = WeightsCustom
    /\ last.metadata = MetaQuality
    /\ result["quality"] = Num(700)

-----------------------------------------------------------------------------
(* User view *)

UserIds == {"u1", "u2"}
UserLimits == {1, 5}

NextUser ==
    \/ \E k \in Ticks : StoreLongTerm(TextHi, PyNone, NoQuality, "none", k)
    \/ \E u \in UserIds, f \in LongFails \cup {"add"}, k \in Ticks :
          StoreUserMemory(u, TextHi, PyNone, f, k)
    \/ \E u \in UserIds, n \in UserLimits, e \in Exts :
          SearchUserMemory(u, QueryH, n, e)

SpecUser == Init /\ [][NextUser]_vars

\* C16: without Mem0, every record a search_user_memory call returns has
\* metadata user_id equal to the user_id asked for, and the call returns at
\* most limit records.
C16_UserIsolation ==
    (last.op = "search_user_memory" /\ ~use_mem0 /\ last.outcome = "ok")
    => /\ Len(result) <= last.limit
       /\ \A i \in 1..Len(result) :
             /\ "user_id" \in DOMAIN MetadataOf(result[i])
             /\ MetadataOf(result[i])["user_id"].s = last.user_id

\* the rows of long_mem that match the query and belong to the user, or not
UserRows(query, user_id, mine) ==
    {i \in 1..Len(long_mem) :
        /\ Like(long_mem[i].content, query)
        /\ mine <=> /\ "user_id" \in DOMAIN long_mem[i].meta
                    /\ long_mem[i].meta["user_id"].s = user_id}

\* a search_user_memory call without Mem0 returned a record of the user
\* while long_mem held a matching row that is not the user's
C16_Witness ==
    /\ last.op = "search_user_memory"
    /\ ~use_mem0
    /\ last.outcome = "ok"
    /\ Len(result) = 1
    /\ UserRows(last.query, last.user_id, TRUE) # {}
    /\ UserRows(last.query, last.user_id, FALSE) # {}

-----------------------------------------------------------------------------
(* Resets of the entity and user views *)

NextViewReset ==
    \/ \E f \in BOOLEAN, k \in Ticks :
          StoreShortTerm(TextHi, PyNone, NoQuality, f, k)
    \/ \E f \in LongFails, k \in Ticks :
          StoreLongTerm(TextHi, PyNone, NoQuality, f, k)
    \/ \E f \in LongFails, k \in Ticks :
          StoreEntity(<<"h">>, <<"t">>, <<"d">>, <<"r">>, f, k)
    \/ \E f \in LongFails \cup {"add"}, k \in Ticks :
          StoreUserMemory("u1", TextHi, PyNone, f, k)
    \/ \E f \in ResetFails : ResetEntityOnly(f)
    \/ \E f \in ResetFails : ResetUserMemory(f)

SpecViewReset == Init /\ [][NextViewReset]_vars

\* C17: reset_entity_only and reset_user_memory each leave long_mem without
\* any row, whatever its rows were, and leave short_mem unchanged.
C17_ViewResetWipesLong ==
    [][last'.op \in {"reset_entity_only", "reset_user_memory"}
       => /\ long_mem' = <<>>
          /\ short_mem' = short_mem]_vars

\* a reset_entity_only has emptied a long_mem that held a row that is no
\* entity, and a reset_user_memory one that held a row without user_id,
\* while short_mem holds a row
C17_Witness ==
    /\ short_mem # <<>>
    /\ long_mem = <<>>
    /\ \/ /\ last.op = "reset_entity_only"
          /\ \E i \in 1..Len(last.before) :
                "category" \notin DOMAIN last.before[i].meta
       \/ /\ last.op = "reset_user_memory"
          /\ \E i \in 1..Len(last.before) :
                "user_id" \notin DOMAIN last.before[i].meta

-----------------------------------------------------------------------------
(* Context assembly: frame and empty result *)

NextFrame ==
    \/ \E k \in Ticks : StoreShortTerm(TextHi, PyNone, NoQuality, FALSE, k)
    \/ \E k \in Ticks : StoreLongTerm(TextHi, PyNone, NoQuality, "none", k)
    \/ StoreEntity(<<"h">>, <<"t">>, <<"d">>, <<"r">>, "none", 1)
    \/ \E u \in {NoUser, "u1"}, e \in Exts :
          BuildContext(QueryHi, u, <<>>, 3, <<e, e, e, e>>)

SpecFrame == Init /\ [][NextFrame]_vars

\* C18: build_context_for_task leaves short_mem, long_mem, the collection
\* and the Mem0 records unchanged, and when it returns, it returns the empty
\* string exactly when none of the four sections has a formatted hit.
C18_BuildContextReadOnly ==
    [][last'.op = "build_context_for_task"
       => /\ short_mem' = short_mem
          /\ long_mem' = long_mem
          /\ chroma' = chroma
          /\ mem0' = mem0
          /\ last'.outcome = "ok"
             => (result' = <<>>
                 <=> \A k \in 1..4 : last'.sections[k] = <<>>)]_vars

\* a build_context_for_task over stores that hold rows has returned a
\* context with a section
C18_Witness ==
    /\ last.op = "build_context_for_task"
    /\ last.outcome = "ok"
    /\ result # <<>>
    /\ \E k \in 1..4 : last.sections[k] # <<>>
    /\ long_mem # <<>>

-----------------------------------------------------------------------------
(* Filters of the long-term search *)

MetaLow == [quality |-> Num(300)]

FilterMetas == {MetaLow, MetaTask}
FilterLimits == {1, 5}
FilterCutoffs == {0, 950}
FilterQualities == {0, 500}

NextFilter ==
    \/ \E m \in FilterMetas, k \in Ticks :
          StoreLongTerm(TextHi, m, NoQuality, "none", k)
    \/ \E n \in FilterLimits, rc \in FilterCutoffs, mq \in FilterQualities,
          e \in Exts :
          SearchLongTerm(QueryHi, n, rc, mq, e)

SpecFilter == Init /\ [][NextFilter]_vars

\* the rows of long_mem that match the query and pass the quality filter
PassingRows(query, min_quality) ==
    {i \in 1..Len(long_mem) :
        /\ Like(long_mem[i].content, query)
        /\ min_quality > 0
           => QualityOf(JsonLoads(long_mem[i].meta)) >= min_quality}

\* C19: every record a search_long_term call returns has quality >=
\* min_quality when min_quality > 0 and score >= relevance_cutoff when
\* relevance_cutoff > 0 (a missing score counts as 1.0), the call returns at
\* most limit records, and the limit cuts only what passed the filters: with
\* the local table as the only source, the call returns limit records when
\* that many rows match and pass, and all of them otherwise.
C19_FiltersThenLimit ==
    (last.op = "search_long_term" /\ last.outcome = "ok")
    => /\ Len(result) <= last.limit
       /\ \A i \in 1..Len(result) :
             /\ last.min_quality > 0
                => QualityOf(MetadataOf(result[i])) >= last.min_quality
             /\ last.relevance_cutoff > 0
                => ScoreOf(result[i]) >= last.relevance_cutoff
       /\ (~Mem0Active /\ ~RagActive)
          => Len(result) = Min(last.limit,
                 Cardinality(PassingRows(last.query, last.min_quality)))

-----------------------------------------------------------------------------
(* Frame of the short-term store *)

\* C20: store_short_term leaves long_mem, the collection and the Mem0
\* records unchanged, under every backend configuration.
C20_StoreShortFrame ==
    [][last'.op = "store_short_term"
       => /\ long_mem' = long_mem
          /\ chroma' = chroma
          /\ mem0' = mem0]_vars

\* a store_short_term has inserted its row while a secondary backend is
\* active that holds no record of it
C20_Witness ==
    /\ last.op = "store_short_term"
    /\ last.inserted
    /\ HasId(short_mem, last.id)
    /\ \/ RagActive /\ \A r \in chroma : r.id # last.id
       \/ Mem0Active /\ mem0 = <<>>

-----------------------------------------------------------------------------
(* Lifecycle of rows *)

NextLifecycle ==
    \/ \E f \in BOOLEAN, k \in Ticks :
          StoreShortTerm(TextHi, PyNone, NoQuality, f, k)
    \/ \E f \in LongFails, k \in Ticks :
          StoreLongTerm(TextHi, MetaTask, NoQuality, f, k)
    \/ \E e \in Exts : SearchShortTerm(QueryHi, 5, 0, 0, e)
    \/ \E e \in Exts : SearchLongTerm(QueryHi, 5, 0, 0, e)
    \/ \E e \in Exts : BuildContext(QueryHi, NoUser, <<>>, 3, <<e, e, e, e>>)
    \/ ResetShortTerm
    \/ \E f \in ResetFails : ResetLongTerm(f)

SpecLifecycle == Init /\ [][NextLifecycle]_vars

\* rows is a prefix of rowsAfter: every row is still there, at its place,
\* with the same id, content and metadata
KeepsRows(rows, rowsAfter) ==
    /\ Len(rows) <= Len(rowsAfter)
    /\ SubSeq(rowsAfter, 1, Len(rows)) = rows

\* C21: every step keeps the rows of short_mem unless it is a
\* reset_short_term, and the rows of long_mem unless it is a
\* reset_long_term; a store adds at most one row at the end, and the
\* searches and build_context_for_task change neither table.
C21_RowsStayUntilReset ==
    [][/\ last'.op # "reset_short_term" => KeepsRows(short_mem, short_mem')
       /\ last'.op # "reset_long_term" => KeepsRows(long_mem, long_mem')
       /\ last'.op \in {"store_short_term", "store_long_term"}
          => /\ Len(short_mem') <= Len(short_mem) + 1
             /\ Len(long_mem') <= Len(long_mem) + 1
       /\ last'.op \in {"search_short_term", "search_long_term",
                        "build_context_for_task"}
          => short_mem' = short_mem /\ long_mem' = long_mem]_vars

\* rows of both tables have outlived a search and a reset of the other
\* table: a reset_short_term has left the rows of long_mem in place
C21_Witness ==
    /\ last.op = "reset_short_term"
    /\ short_mem = <<>>
    /\ Len(long_mem) = 2

-----------------------------------------------------------------------------
(* Reset of the long-term partition and its backends *)

-----------------------------------------------------------------------------
(* Concurrent callers: store_long_term and reset_long_term in steps.  A     *)
(* call under way is a record of inflight; nothing in the class holds a     *)
(* lock between its SQLite transaction and its call to the backend.         *)

MaxCalls == 2

\* inflight without its i-th call
Finished(i) == SubSeq(inflight, 1, i - 1) \o SubSeq(inflight, i + 1, Len(inflight))

\* store_long_term up to the commit of its INSERT, lines 351-376
StoreLongInsert(text, metadata, tick) ==
    /\ CanTick(tick)
    /\ Mem0Room
    /\ Len(inflight) < MaxCalls
    /\ LET md == ProcessQualityMetrics(metadata, NoQuality)
           ident == clock
           failed == HasId(long_mem, ident)
       IN  /\ long_mem' = IF failed THEN long_mem
                          ELSE Append(long_mem, Row(ident, text, md))
           /\ inflight' = IF failed THEN inflight
                          ELSE Append(inflight, [op |-> "store_long_term",
                                   id |-> ident, text |-> text, md |-> md])
           /\ last' = [op |-> "store_long_term", step |-> "insert",
                       text |-> text, metadata |-> metadata, fail |-> "none",
                       id |-> ident, inserted |-> ~failed, outcome |-> "ok"]
    /\ clock' = clock + tick
    /\ result' = <<>>
    /\ UNCHANGED <<cfg_vars, short_mem, chroma, mem0>>

\* the secondary write of the i-th call under way, lines 378-414
StoreLongIndex(i) ==
    /\ i \in DOMAIN inflight
    /\ inflight[i].op = "store_long_term"
    /\ Commit(SecondaryWrite(Cur, inflight[i].id, inflight[i].text,
                             inflight[i].md, "none"))
    /\ inflight' = Finished(i)
    /\ last' = [op |-> "store_long_term", step |-> "index", fail |-> "none",
                id |-> inflight[i].id, inserted |-> TRUE, outcome |-> "ok"]
    /\ result' = <<>>
    /\ UNCHANGED cfg_vars

\* reset_long_term up to the commit of its DELETE, lines 518-521
ResetLongDelete ==
    /\ Len(inflight) < MaxCalls
    /\ long_mem' = <<>>
    /\ inflight' = Append(inflight, [op |-> "reset_long_term"])
    /\ last' = [op |-> "reset_long_term", step |-> "delete", fail |-> "none",
                outcome |-> "ok"]
    /\ result' = <<>>
    /\ UNCHANGED <<cfg_vars, short_mem, chroma, mem0, clock>>

\* the rest of the i-th call under way, a reset_long_term: lines 523-528
ResetLongBackend(i) ==
    /\ i \in DOMAIN inflight
    /\ inflight[i].op = "reset_long_term"
    /\ chroma' = IF use_rag /\ has_chroma_client THEN {} ELSE chroma
    /\ inflight' = Finished(i)
    /\ last' = [op |-> "reset_long_term", step |-> "backend", fail |-> "none",
                outcome |-> "ok"]
    /\ result' = <<>>
    /\ UNCHANGED <<cfg_vars, short_mem, long_mem, mem0, clock>>

NextRace ==
    \/ \E k \in Ticks : StoreLongInsert(TextHi, PyNone, k)
    \/ \E i \in 1..MaxCalls : StoreLongIndex(i)
    \/ ResetLongDelete
    \/ \E i \in 1..MaxCalls : ResetLongBackend(i)

SpecRace == Init /\ [][NextRace]_vars

\* C23: whenever no call is under way, each id in the collection is the id
\* of a row of long_mem, whatever the interleaving of the store_long_term
\* and reset_long_term calls that have run.
C23_IndexedIdsHaveRows ==
    inflight = <<>> => \A r \in chroma : HasId(long_mem, r.id)

-----------------------------------------------------------------------------
(* Ids *)

\* C24: a store operation whose database works persists its record under an
\* id of its own: it never fails, and never loses its record, because its
\* id is already in the table, also when it reads the clock value an
\* earlier store has read.
C24_NoIdCollision ==
    (/\ last.op \in {"store_short_term", "store_long_term"}
     /\ last.fail # "db")
    => /\ last.inserted
       /\ last.outcome = "ok"

-----------------------------------------------------------------------------
(* Ids of a long-term result *)

\* C25: the records a search_long_term call returns have pairwise distinct
\* ids, also when the collection and the query on long_mem find the same
\* record.
C25_DistinctIds ==
    (last.op = "search_long_term" /\ last.outcome = "ok")
    => \A i, j \in 1..Len(result) : i # j => result[i].id # result[j].id

\* a search_long_term has returned a record that the collection answered
\* first and that is also a row of long_mem matching the query
C25_Witness ==
    /\ last.op = "search_long_term"
    /\ last.fail = "none"
    /\ RagActive
    /\ last.hits # <<>>
    /\ \E i \in 1..Len(long_mem) :
          /\ long_mem[i].id = last.hits[1]
          /\ Like(long_mem[i].content, last.query)
    /\ \E i \in 1..Len(result) : result[i].id = last.hits[1]

-----------------------------------------------------------------------------
(* Filters of the short-term search *)

NextShortFilter ==
    \/ \E m \in FilterMetas, k \in Ticks :
          StoreShortTerm(TextHi, m, NoQuality, FALSE, k)
    \/ \E m \in FilterMetas, k \in Ticks :
          StoreLongTerm(TextHi, m, NoQuality, "none", k)
    \/ \E n \in FilterLimits, rc \in FilterCutoffs, mq \in FilterQualities,
          e \in Exts :
          SearchShortTerm(QueryHi, n, mq, rc, e)

SpecShortFilter == Init /\ [][NextShortFilter]_vars

\* C26: every record a search_short_term call returns has metadata quality
\* >= min_quality (a missing quality counts as 0), and the call returns at
\* most limit records, under every backend configuration.
C26_ShortQualityFilter ==
    (last.op = "search_short_term" /\ last.outcome = "ok")
    => /\ Len(result) <= last.limit
       /\ \A i \in 1..Len(result) :
             QualityOf(MetadataOf(result[i])) >= last.min_quality

-----------------------------------------------------------------------------
(* User records and the extra metadata *)

UserExtras == {PyNone, MetaNote, MetaUser}

NextUserExtra ==
    \/ \E u \in UserIds, x \in UserExtras, f \in LongFails \cup {"add"},
          k \in Ticks :
          StoreUserMemory(u, TextHi, x, f, k)
    \/ \E u \in UserIds, n \in UserLimits, e \in Exts :
          SearchUserMemory(u, QueryH, n, e)

SpecUserExtra == Init /\ [][NextUserExtra]_vars

\* the record a step adds to Mem0, as a set: empty when it adds none
NewMem0 == IF Len(mem0') = Len(mem0) + 1 THEN {mem0'[Len(mem0')]} ELSE {}

\* C27: the record a store_user_memory call writes, to long_mem or to Mem0,
\* carries metadata user_id equal to the user_id of the call, whatever keys
\* extra has.
C27_UserIdNotOverridden ==
    [][last'.op = "store_user_memory"
       => /\ \A r \in NewRows :
                /\ HasKey(r.meta, "user_id")
                /\ r.meta["user_id"].s = last'.user_id
          /\ \A r \in NewMem0 :
                /\ HasKey(r.metadata, "user_id")
                /\ r.metadata["user_id"].s = last'.user_id]_vars

-----------------------------------------------------------------------------
(* Completeness of the entity view *)

\* C28: when long_mem holds an entity row whose content contains the query,
\* a search_entity call with limit >= 1 that returns, returns at least one
\* record.
C28_EntityNotUnderReturned ==
    (/\ last.op = "search_entity"
     /\ last.outcome = "ok"
     /\ last.limit >= 1
     /\ EntityRows(last.query, TRUE) # {})
    => Len(result) >= 1

====
